---- MODULE Spec2Model ----
(***************************************************************************)
(* Model of the collector of elb-trust-store-exporter: New, the background *)
(* loop and its ticker, scrape, collectTrustStoreMetrics and Collect.      *)
(***************************************************************************)
EXTENDS Integers, Sequences, FiniteSets, TLC

\* ------------------------------------------------------------------ bounds

\* Number of scrape intervals the clock may advance, in the specification that
\* explores the interleaving with readers.
MaxTicks == 2

\* The same, in the specification that explores bundle contents.
ScrapeTicks == 1

\* Total number of PEM items (blocks or stray bytes) held by the bundles of
\* the account, in the specification that explores bundle contents.
MaxBlocks == 2

\* The same, in the specification that explores the interleaving with readers.
ConcBlocks == 0

\* Number of PEM items of the bundle, in the specification that explores one
\* extraction.
ExtractBlocks == 4

\* ------------------------------------------------------- program constants

\* c.scrapeInterval, in clock units (the clock counts intervals).
scrapeInterval == 1

\* Capacity of the channel ticker.C made by time.NewTicker.
TickerCap == 1

\* ---------------------------------------------------------------- universe

\* Trust store ARNs of the account.
ARNs == {"a", "b"}

\* What one item of a bundle can be: a CERTIFICATE block holding a
\* certificate with an RSA, ECDSA or other (Ed25519) public key, a CERTIFICATE
\* block whose bytes do not parse, a block of another type, bytes that are no
\* PEM block.
Kinds == {"RSA", "ECDSA", "ED25519", "MALFORMED", "KEY", "GARBAGE"}

\* The goroutines that can run scrape: the caller of New, and the goroutine
\* New starts.
Ctx == {"main", "bg"}

\* Concurrent Collect callers (the registry's gatherers).
Readers == {"r1"}

TrustStoreNames == {"info", "certificates", "revoked_entries"}

CertificateNames == {"certificate_info", "certificate_not_before", "certificate_expiry"}

ExporterNames == {"exporter_last_scrape_timestamp", "exporter_scrape_duration_seconds",
                  "exporter_scrape_interval", "collector_success"}

VARIABLES
    account,        \* the trust stores DescribeTrustStores returns, in order
    bundleOf,       \* ARN -> the items of the bundle behind bundle.Location
    clock,          \* wall clock, in scrape intervals
    tickerOn,       \* backgroundScrape has created its ticker
    tickChan,       \* number of ticks buffered in ticker.C
    pc,             \* Ctx -> position of the goroutine
    now,            \* Ctx -> scrape's local now
    expired,        \* Ctx -> scrape's ctx has passed its deadline
    metrics,        \* Ctx -> scrape's local metrics
    success,        \* Ctx -> scrape's local success
    idx,            \* Ctx -> position of the range loop over result.TrustStores
    scrapeDuration, \* Ctx -> scrape's local scrapeDuration
    mutex,          \* c.mutex: "free" or its holder
    c_metrics,      \* c.metrics
    replaced,       \* history: the slice the last assignment to c.metrics
                    \* replaced held trust store or certificate samples
    rpc,            \* Readers -> position of the Collect call
    rng,            \* Readers -> the slice the range statement of Collect iterates
    sent,           \* Readers -> the samples sent on ch by the call so far
    cycles,         \* history: number of scrape executions started
    cyc,            \* history: Ctx -> number of the scrape execution in progress
    log,            \* history: Ctx -> the external calls of the execution
    tickedSinceStart,  \* history: a tick fired since the loop last started a scrape
    tickedSinceReturn  \* history: a tick fired since the loop's last scrape returned

envVars == <<account, bundleOf>>
timeVars == <<clock, tickerOn, tickChan, tickedSinceStart, tickedSinceReturn>>
scrapeVars == <<now, expired, metrics, success, idx, scrapeDuration, cyc, log>>
readerVars == <<rpc, rng, sent>>
vars == <<account, bundleOf, clock, tickerOn, tickChan, pc, now, expired, metrics,
          success, idx, scrapeDuration, mutex, c_metrics, replaced, rpc, rng, sent,
          cycles, cyc, log, tickedSinceStart, tickedSinceReturn>>

\* ------------------------------------------------------------------ samples

\* prometheus.MustNewConstMetric: one sample.  cycle is history: the scrape
\* execution that created the sample.
Sample(name, arn, serial, keyLength, value, k) ==
    [name |-> name, arn |-> arn, serial |-> serial, key_length |-> keyLength,
     value |-> value, cycle |-> k]

\* The three samples collectTrustStoreMetrics appends on entry.
TrustStoreSamples(ts, k) ==
    << Sample("info", ts.arn, 0, 0, 1, k),
       Sample("certificates", ts.arn, 0, 0, ts.NumberOfCaCertificates, k),
       Sample("revoked_entries", ts.arn, 0, 0, ts.TotalRevokedEntries, k) >>

\* The switch on cert.PublicKey: the key length of the kinds it knows.
KeyLength(key) == IF key = "rsa" THEN 2048 ELSE 256

\* The three samples appended for one characterised certificate.
CertificateSamples(arn, cert, k) ==
    << Sample("certificate_info", arn, cert.serial, KeyLength(cert.key), 1, k),
       Sample("certificate_not_before", arn, cert.serial, 0, cert.serial, k),
       Sample("certificate_expiry", arn, cert.serial, 0, cert.serial + 1, k) >>

\* Mutant of ExporterSamples: the timing samples are appended for a
\* successful scrape only.
ExporterSamplesOnSuccess(start, duration, ok, k) ==
    IF ok
    THEN << Sample("exporter_last_scrape_timestamp", "", 0, 0, start, k),
            Sample("exporter_scrape_duration_seconds", "", 0, 0, duration, k),
            Sample("exporter_scrape_interval", "", 0, 0, scrapeInterval, k),
            Sample("collector_success", "", 0, 0, 1, k) >>
    ELSE << Sample("collector_success", "", 0, 0, 0, k) >>

\* The four exporter samples scrape appends under the lock.
ExporterSamples(start, duration, ok, k) ==
    << Sample("exporter_last_scrape_timestamp", "", 0, 0, start, k),
       Sample("exporter_scrape_duration_seconds", "", 0, 0, duration, k),
       Sample("exporter_scrape_interval", "", 0, 0, scrapeInterval, k),
       Sample("collector_success", "", 0, 0, IF ok THEN 1 ELSE 0, k) >>

\* ---------------------------------------------------------------- the bundle

\* The bytes ioutil.ReadAll returns for a bundle: its items, each certificate
\* numbered by its position (its serial number).
PemItem(kind, i) ==
    [type |-> IF kind \in {"RSA", "ECDSA", "ED25519", "MALFORMED"} THEN "CERTIFICATE"
              ELSE IF kind = "KEY" THEN "PRIVATE KEY" ELSE "",
     key |-> IF kind = "RSA" THEN "rsa" ELSE IF kind = "ECDSA" THEN "ecdsa"
             ELSE IF kind = "ED25519" THEN "ed25519"
             ELSE IF kind = "MALFORMED" THEN "unparsable" ELSE "none",
     serial |-> i]

PemOf(kinds) == [i \in 1..Len(kinds) |-> PemItem(kinds[i], i)]

NoBlock == [type |-> "", key |-> "none", serial |-> 0]

\* pem.Decode: the next PEM block of the data and what follows it; bytes that
\* are no block are passed over, and with no block left the block is nil and
\* the data is returned as the rest.
RECURSIVE Decode(_)
Decode(data) ==
    IF Len(data) = 0 THEN [block |-> NoBlock, rest |-> data]
    ELSE IF Head(data).type # "" THEN [block |-> Head(data), rest |-> Tail(data)]
    ELSE LET d == Decode(Tail(data))
         IN  IF d.block = NoBlock THEN [block |-> NoBlock, rest |-> data] ELSE d

\* Mutant of CertLoop: a certificate that fails to parse ends the extraction
\* with an error.
RECURSIVE CertLoopAbortOnParseError(_, _, _, _)
CertLoopAbortOnParseError(pemData, arn, k, acc) ==
    IF Len(pemData) = 0 THEN [metrics |-> acc, err |-> FALSE]
    ELSE LET d == Decode(pemData)
         IN  IF d.block = NoBlock THEN [metrics |-> acc, err |-> FALSE]
             ELSE IF d.block.type # "CERTIFICATE"
                  THEN CertLoopAbortOnParseError(d.rest, arn, k, acc)
             ELSE IF d.block.key = "unparsable" THEN [metrics |-> acc, err |-> TRUE]
             ELSE IF d.block.key \notin {"rsa", "ecdsa"} THEN [metrics |-> acc, err |-> TRUE]
             ELSE CertLoopAbortOnParseError(d.rest, arn, k,
                                            acc \o CertificateSamples(arn, d.block, k))

\* Mutant of CertLoop: a block of another type ends the loop (break in place
\* of continue).
RECURSIVE CertLoopBreakOnOtherType(_, _, _, _)
CertLoopBreakOnOtherType(pemData, arn, k, acc) ==
    IF Len(pemData) = 0 THEN [metrics |-> acc, err |-> FALSE]
    ELSE LET d == Decode(pemData)
         IN  IF d.block = NoBlock THEN [metrics |-> acc, err |-> FALSE]
             ELSE IF d.block.type # "CERTIFICATE" THEN [metrics |-> acc, err |-> FALSE]
             ELSE IF d.block.key = "unparsable"
                  THEN CertLoopBreakOnOtherType(d.rest, arn, k, acc)
             ELSE IF d.block.key \notin {"rsa", "ecdsa"} THEN [metrics |-> acc, err |-> TRUE]
             ELSE CertLoopBreakOnOtherType(d.rest, arn, k,
                                           acc \o CertificateSamples(arn, d.block, k))

\* Mutant of CertLoop: pem.Decode finding no block is reported as an error.
RECURSIVE CertLoopErrorOnNoBlock(_, _, _, _)
CertLoopErrorOnNoBlock(pemData, arn, k, acc) ==
    IF Len(pemData) = 0 THEN [metrics |-> acc, err |-> FALSE]
    ELSE LET d == Decode(pemData)
         IN  IF d.block = NoBlock THEN [metrics |-> acc, err |-> TRUE]
             ELSE IF d.block.type # "CERTIFICATE"
                  THEN CertLoopErrorOnNoBlock(d.rest, arn, k, acc)
             ELSE IF d.block.key = "unparsable"
                  THEN CertLoopErrorOnNoBlock(d.rest, arn, k, acc)
             ELSE IF d.block.key \notin {"rsa", "ecdsa"} THEN [metrics |-> acc, err |-> TRUE]
             ELSE CertLoopErrorOnNoBlock(d.rest, arn, k,
                                         acc \o CertificateSamples(arn, d.block, k))

\* The loop `for len(pemData) > 0` of collectTrustStoreMetrics: the metrics
\* slice after it, and whether it returned an error.
RECURSIVE CertLoop(_, _, _, _)
CertLoop(pemData, arn, k, acc) ==
    IF Len(pemData) = 0 THEN [metrics |-> acc, err |-> FALSE]
    ELSE LET d == Decode(pemData)
         IN  IF d.block = NoBlock THEN [metrics |-> acc, err |-> FALSE]
             ELSE IF d.block.type # "CERTIFICATE" THEN CertLoop(d.rest, arn, k, acc)
             ELSE IF d.block.key = "unparsable" THEN CertLoop(d.rest, arn, k, acc)
             ELSE IF d.block.key \notin {"rsa", "ecdsa"} THEN [metrics |-> acc, err |-> TRUE]
             ELSE CertLoop(d.rest, arn, k, acc \o CertificateSamples(arn, d.block, k))

\* ------------------------------------------------------------ the account

\* Number of items of a bundle that are CERTIFICATE blocks.
RECURSIVE CountCertificates(_)
CountCertificates(kinds) ==
    IF Len(kinds) = 0 THEN 0
    ELSE (IF PemItem(Head(kinds), 0).type = "CERTIFICATE" THEN 1 ELSE 0)
         + CountCertificates(Tail(kinds))

\* result.TrustStores of a successful DescribeTrustStores call.
TrustStores ==
    [i \in 1..Len(account) |->
        [arn |-> account[i],
         NumberOfCaCertificates |-> CountCertificates(bundleOf[account[i]]),
         TotalRevokedEntries |-> 0]]

\* What DescribeTrustStores can return: no trust store, one, or both.
Accounts == {<<>>, <<"a">>, <<"a", "b">>}

InAccount(a, acc) == \E i \in 1..Len(acc) : acc[i] = a

\* The accounts whose bundles hold n items or fewer in total.
InitEnv(n) ==
    /\ account \in Accounts
    /\ \E la \in 0..n :
       \E lb \in 0..(n - la) :
          /\ InAccount("a", account) \/ la = 0
          /\ InAccount("b", account) \/ lb = 0
          /\ \E ba \in [1..la -> Kinds] :
             \E bb \in [1..lb -> Kinds] :
                bundleOf = [x \in ARNs |-> IF x = "a" THEN ba ELSE bb]

\* ------------------------------------------------------------------- scrape

\* One external call of a scrape execution, as recorded in its log.
Event(op, arn, ok) == [op |-> op, arn |-> arn, ok |-> ok]

InScrape(p) == pc[p] \in {"config", "describe", "loop", "getBundle", "httpGet",
                          "readAll", "finish", "lock", "publish", "unlock"}

\* The part of scrape in which ctx is passed to calls.
InBudgetScope(p) == pc[p] \in {"config", "describe", "loop", "getBundle", "httpGet",
                               "readAll"}

\* Mutant of InitialMetrics: scrape goes on appending to the published slice.
InitialMetricsKeepOld(old) == old

\* `var metrics []prometheus.Metric`: the slice scrape starts from.
InitialMetrics(old) == <<>>

\* Mutant of AfterConfig: the guard `if success` around the enumeration is lost.
AfterConfigUnguarded(ok) == "describe"

\* Where scrape goes after config.LoadDefaultConfig.
AfterConfig(ok) == IF ok THEN "describe" ELSE "finish"

\* Mutant of AfterDescribe: a failed enumeration ends the process
\* (log.Fatal in place of log.Printf).
AfterDescribeFatal(ok) == IF ok THEN "loop" ELSE "exited"

\* Where scrape goes after DescribeTrustStores.
AfterDescribe(ok) == IF ok THEN "loop" ELSE "finish"

\* Mutant of AfterStore: the first trust store that fails ends the loop.
AfterStoreAbort(err) == IF err THEN "finish" ELSE "loop"

\* Where scrape goes after collectTrustStoreMetrics returned: the next
\* iteration of the range loop.
AfterStore(err) == "loop"

\* Mutant of UpdateSuccess: success follows the last trust store.
UpdateSuccessLast(s, err) == ~err

\* `if err != nil { success = false }`.
UpdateSuccess(s, err) == IF err THEN FALSE ELSE s

\* Mutant of Snapshot: a cycle that failed keeps the slice published before.
SnapshotKeepOnFailure(m, start, duration, ok, k) ==
    IF ok THEN m \o ExporterSamples(start, duration, ok, k) ELSE c_metrics

\* The slice scrape assigns to c.metrics.
Snapshot(m, start, duration, ok, k) == m \o ExporterSamples(start, duration, ok, k)

\* Mutant of ScrapeBegin: scrape takes c.mutex on entry, before its calls.
ScrapeBeginLocked(p) ==
    /\ mutex = "free"
    /\ mutex' = p
    /\ pc' = [pc EXCEPT ![p] = "config"]
    /\ now' = [now EXCEPT ![p] = clock]
    /\ expired' = [expired EXCEPT ![p] = FALSE]
    /\ metrics' = [metrics EXCEPT ![p] = InitialMetrics(c_metrics)]
    /\ success' = [success EXCEPT ![p] = TRUE]
    /\ idx' = [idx EXCEPT ![p] = 0]
    /\ scrapeDuration' = [scrapeDuration EXCEPT ![p] = 0]
    /\ cycles' = cycles + 1
    /\ cyc' = [cyc EXCEPT ![p] = cycles + 1]
    /\ log' = [log EXCEPT ![p] = <<>>]

\* Entry of scrape: now, ctx, metrics and success are set; c.mutex is not
\* touched.
ScrapeBegin(p) ==
    /\ UNCHANGED mutex
    /\ pc' = [pc EXCEPT ![p] = "config"]
    /\ now' = [now EXCEPT ![p] = clock]
    /\ expired' = [expired EXCEPT ![p] = FALSE]
    /\ metrics' = [metrics EXCEPT ![p] = InitialMetrics(c_metrics)]
    /\ success' = [success EXCEPT ![p] = TRUE]
    /\ idx' = [idx EXCEPT ![p] = 0]
    /\ scrapeDuration' = [scrapeDuration EXCEPT ![p] = 0]
    /\ cycles' = cycles + 1
    /\ cyc' = [cyc EXCEPT ![p] = cycles + 1]
    /\ log' = [log EXCEPT ![p] = <<>>]

\* Mutant of NewScrape: New leaves the first scrape to the background loop.
NewWithoutScrape ==
    /\ pc["main"] = "new"
    /\ pc' = [pc EXCEPT !["main"] = "go"]
    /\ UNCHANGED <<envVars, timeVars, scrapeVars, mutex, c_metrics, replaced, readerVars,
                   cycles>>

\* New calls c.scrape().
NewScrape ==
    /\ pc["main"] = "new"
    /\ ScrapeBegin("main")
    /\ UNCHANGED <<envVars, timeVars, c_metrics, replaced, readerVars>>

\* The range over ticker.C receives a tick and the loop calls c.scrape().
TickReceive ==
    /\ pc["bg"] = "wait"
    /\ tickChan > 0
    /\ tickChan' = tickChan - 1
    /\ tickedSinceStart' = FALSE
    /\ ScrapeBegin("bg")
    /\ UNCHANGED <<envVars, clock, tickerOn, tickedSinceReturn, c_metrics, replaced,
                   readerVars>>

\* The deadline of ctx passes.
BudgetExpire(p) ==
    /\ InBudgetScope(p)
    /\ ~expired[p]
    /\ expired' = [expired EXCEPT ![p] = TRUE]
    /\ UNCHANGED <<envVars, timeVars, pc, now, metrics, success, idx, scrapeDuration,
                   mutex, c_metrics, replaced, readerVars, cycles, cyc, log>>

\* config.LoadDefaultConfig.
LoadDefaultConfig(p) ==
    /\ pc[p] = "config"
    /\ \E ok \in BOOLEAN :
          /\ log' = [log EXCEPT ![p] = Append(@, Event("config", "", ok))]
          /\ success' = [success EXCEPT ![p] = UpdateSuccess(@, ~ok)]
          /\ pc' = [pc EXCEPT ![p] = AfterConfig(ok)]
    /\ UNCHANGED <<envVars, timeVars, now, expired, metrics, idx, scrapeDuration,
                   mutex, c_metrics, replaced, readerVars, cycles, cyc>>

\* svc.DescribeTrustStores: it fails once ctx has expired.
DescribeTrustStores(p) ==
    /\ pc[p] = "describe"
    /\ \E ok \in BOOLEAN :
          /\ expired[p] => ~ok
          /\ log' = [log EXCEPT ![p] = Append(@, Event("describe", "", ok))]
          /\ success' = [success EXCEPT ![p] = UpdateSuccess(@, ~ok)]
          /\ idx' = [idx EXCEPT ![p] = 1]
          /\ pc' = [pc EXCEPT ![p] = AfterDescribe(ok)]
    /\ UNCHANGED <<envVars, timeVars, now, expired, metrics, scrapeDuration,
                   mutex, c_metrics, replaced, readerVars, cycles, cyc>>

\* The range loop calls collectTrustStoreMetrics for the next trust store,
\* which appends its three samples.
CollectTrustStoreMetrics(p) ==
    /\ pc[p] = "loop"
    /\ idx[p] <= Len(TrustStores)
    /\ LET ts == TrustStores[idx[p]]
       IN  /\ metrics' = [metrics EXCEPT ![p] = @ \o TrustStoreSamples(ts, cyc[p])]
           /\ log' = [log EXCEPT ![p] = Append(@, Event("enter", ts.arn, TRUE))]
    /\ pc' = [pc EXCEPT ![p] = "getBundle"]
    /\ UNCHANGED <<envVars, timeVars, now, expired, success, idx, scrapeDuration,
                   mutex, c_metrics, replaced, readerVars, cycles, cyc>>

\* collectTrustStoreMetrics returns to the range loop of scrape.
StoreReturn(p, err) ==
    /\ success' = [success EXCEPT ![p] = UpdateSuccess(@, err)]
    /\ idx' = [idx EXCEPT ![p] = @ + 1]
    /\ pc' = [pc EXCEPT ![p] = AfterStore(err)]

\* svc.GetTrustStoreCaCertificatesBundle: it fails once ctx has expired.
GetTrustStoreCaCertificatesBundle(p) ==
    /\ pc[p] = "getBundle"
    /\ \E ok \in BOOLEAN :
          /\ expired[p] => ~ok
          /\ log' = [log EXCEPT ![p] = Append(@, Event("getBundle", account[idx[p]], ok))]
          /\ IF ok
             THEN /\ pc' = [pc EXCEPT ![p] = "httpGet"]
                  /\ UNCHANGED <<success, idx>>
             ELSE StoreReturn(p, TRUE)
    /\ UNCHANGED <<envVars, timeVars, now, expired, metrics, scrapeDuration,
                   mutex, c_metrics, replaced, readerVars, cycles, cyc>>

\* httpClient.Get(*bundle.Location): its own timeout, ctx is not passed.
HttpGet(p) ==
    /\ pc[p] = "httpGet"
    /\ \E ok \in BOOLEAN :
          /\ log' = [log EXCEPT ![p] = Append(@, Event("httpGet", account[idx[p]], ok))]
          /\ IF ok
             THEN /\ pc' = [pc EXCEPT ![p] = "readAll"]
                  /\ UNCHANGED <<success, idx>>
             ELSE StoreReturn(p, TRUE)
    /\ UNCHANGED <<envVars, timeVars, now, expired, metrics, scrapeDuration,
                   mutex, c_metrics, replaced, readerVars, cycles, cyc>>

\* ioutil.ReadAll(resp.Body) fails.
ReadAllError(p) ==
    /\ pc[p] = "readAll"
    /\ log' = [log EXCEPT ![p] = Append(@, Event("readAll", account[idx[p]], FALSE))]
    /\ StoreReturn(p, TRUE)
    /\ UNCHANGED <<envVars, timeVars, now, expired, metrics, scrapeDuration,
                   mutex, c_metrics, replaced, readerVars, cycles, cyc>>

\* ioutil.ReadAll(resp.Body) returns the bundle and the loop over its blocks
\* runs to its end or to its return of an error.
ReadAllAndExtract(p) ==
    /\ pc[p] = "readAll"
    /\ LET arn == account[idx[p]]
           r == CertLoop(PemOf(bundleOf[arn]), arn, cyc[p], metrics[p])
       IN  /\ metrics' = [metrics EXCEPT ![p] = r.metrics]
           /\ log' = [log EXCEPT ![p] = @ \o << Event("readAll", arn, TRUE),
                                                Event("extract", arn, ~r.err) >>]
           /\ StoreReturn(p, r.err)
    /\ UNCHANGED <<envVars, timeVars, now, expired, scrapeDuration,
                   mutex, c_metrics, replaced, readerVars, cycles, cyc>>

\* The range loop over result.TrustStores ends.
LoopExit(p) ==
    /\ pc[p] = "loop"
    /\ idx[p] > Len(TrustStores)
    /\ pc' = [pc EXCEPT ![p] = "finish"]
    /\ UNCHANGED <<envVars, timeVars, scrapeVars, mutex, c_metrics, replaced, readerVars,
                   cycles>>

\* scrapeDuration := time.Since(now).
Finish(p) ==
    /\ pc[p] = "finish"
    /\ scrapeDuration' = [scrapeDuration EXCEPT ![p] = clock - now[p]]
    /\ pc' = [pc EXCEPT ![p] = "lock"]
    /\ UNCHANGED <<envVars, timeVars, now, expired, metrics, success, idx, cyc, log,
                   mutex, c_metrics, replaced, readerVars, cycles>>

\* c.mutex.Lock() in scrape.
ScrapeLock(p) ==
    /\ pc[p] = "lock"
    /\ mutex = "free"
    /\ mutex' = p
    /\ pc' = [pc EXCEPT ![p] = "publish"]
    /\ UNCHANGED <<envVars, timeVars, scrapeVars, c_metrics, replaced, readerVars, cycles>>

\* The exporter samples are appended and c.metrics = metrics.
Publish(p) ==
    /\ pc[p] = "publish"
    /\ c_metrics' = Snapshot(metrics[p], now[p], scrapeDuration[p], success[p], cyc[p])
    /\ replaced' = (\E i \in 1..Len(c_metrics) : c_metrics[i].name \notin ExporterNames)
    /\ pc' = [pc EXCEPT ![p] = "unlock"]
    /\ UNCHANGED <<envVars, timeVars, scrapeVars, mutex, readerVars, cycles>>

\* Mutant of ScrapeReturn: scrape returns without the deferred
\* c.mutex.Unlock().
ScrapeReturnKeepLock(p) ==
    /\ pc[p] = "unlock"
    /\ pc' = [pc EXCEPT ![p] = IF p = "main" THEN "go" ELSE "wait"]
    /\ now' = [now EXCEPT ![p] = 0]
    /\ expired' = [expired EXCEPT ![p] = FALSE]
    /\ metrics' = [metrics EXCEPT ![p] = <<>>]
    /\ success' = [success EXCEPT ![p] = TRUE]
    /\ idx' = [idx EXCEPT ![p] = 0]
    /\ scrapeDuration' = [scrapeDuration EXCEPT ![p] = 0]
    /\ cyc' = [cyc EXCEPT ![p] = 0]
    /\ log' = [log EXCEPT ![p] = <<>>]
    /\ tickedSinceReturn' = IF p = "bg" THEN FALSE ELSE tickedSinceReturn
    /\ UNCHANGED <<envVars, clock, tickerOn, tickChan, tickedSinceStart, mutex, c_metrics,
                   replaced, readerVars, cycles>>

\* The deferred c.mutex.Unlock() and cancel(): scrape returns to its caller.
ScrapeReturn(p) ==
    /\ pc[p] = "unlock"
    /\ mutex' = "free"
    /\ pc' = [pc EXCEPT ![p] = IF p = "main" THEN "go" ELSE "wait"]
    /\ now' = [now EXCEPT ![p] = 0]
    /\ expired' = [expired EXCEPT ![p] = FALSE]
    /\ metrics' = [metrics EXCEPT ![p] = <<>>]
    /\ success' = [success EXCEPT ![p] = TRUE]
    /\ idx' = [idx EXCEPT ![p] = 0]
    /\ scrapeDuration' = [scrapeDuration EXCEPT ![p] = 0]
    /\ cyc' = [cyc EXCEPT ![p] = 0]
    /\ log' = [log EXCEPT ![p] = <<>>]
    /\ tickedSinceReturn' = IF p = "bg" THEN FALSE ELSE tickedSinceReturn
    /\ UNCHANGED <<envVars, clock, tickerOn, tickChan, tickedSinceStart, c_metrics, replaced,
                   readerVars, cycles>>

\* --------------------------------------------------- New and the background loop

\* Mutant of GoBackgroundScrape: New starts the goroutine before its own
\* c.scrape() rather than after it.
GoBackgroundScrapeFirst ==
    /\ \/ /\ pc["main"] = "new"
          /\ pc["bg"] = "absent"
          /\ pc' = [pc EXCEPT !["bg"] = "newTicker"]
       \/ /\ pc["main"] = "go"
          /\ pc' = [pc EXCEPT !["main"] = "returned",
                              !["bg"] = IF @ = "absent" THEN "newTicker" ELSE @]
    /\ UNCHANGED <<envVars, timeVars, scrapeVars, mutex, c_metrics, replaced, readerVars,
                   cycles>>

\* `go c.backgroundScrape(interval)` and the return of New.
GoBackgroundScrape ==
    /\ pc["main"] = "go"
    /\ pc' = [pc EXCEPT !["main"] = "returned", !["bg"] = "newTicker"]
    /\ UNCHANGED <<envVars, timeVars, scrapeVars, mutex, c_metrics, replaced, readerVars,
                   cycles>>

\* reg.MustRegister(c) and the start of the HTTP server: from here on the
\* registry calls Collect.
Register ==
    /\ pc["main"] = "returned"
    /\ pc' = [pc EXCEPT !["main"] = "serving"]
    /\ UNCHANGED <<envVars, timeVars, scrapeVars, mutex, c_metrics, replaced, readerVars,
                   cycles>>

\* time.NewTicker(interval) in backgroundScrape.
NewTicker ==
    /\ pc["bg"] = "newTicker"
    /\ tickerOn' = TRUE
    /\ tickChan' = 0
    /\ tickedSinceStart' = FALSE
    /\ tickedSinceReturn' = FALSE
    /\ pc' = [pc EXCEPT !["bg"] = "wait"]
    /\ UNCHANGED <<envVars, clock, scrapeVars, mutex, c_metrics, replaced, readerVars,
                   cycles>>

\* Mutant of TickSend: the ticker queues every tick.
TickSendQueued(n) == n + 1

\* The ticker's send on ticker.C: a tick that finds the channel full is dropped.
TickSend(n) == IF n < TickerCap THEN n + 1 ELSE n

\* One scrape interval passes; a running ticker fires.
Elapse(limit) ==
    /\ clock < limit
    /\ clock' = clock + 1
    /\ tickChan' = IF tickerOn THEN TickSend(tickChan) ELSE tickChan
    /\ tickedSinceStart' = (tickerOn \/ tickedSinceStart)
    /\ tickedSinceReturn' = (tickerOn \/ tickedSinceReturn)
    /\ UNCHANGED <<envVars, tickerOn, pc, scrapeVars, mutex, c_metrics, replaced, readerVars,
                   cycles>>

\* ------------------------------------------------------------------ Collect

\* The registry calls c.Collect(ch).
CollectCall(r) ==
    /\ pc["main"] = "serving"
    /\ rpc[r] = "idle"
    /\ rpc' = [rpc EXCEPT ![r] = "lock"]
    /\ UNCHANGED <<envVars, timeVars, pc, scrapeVars, mutex, c_metrics, replaced, rng, sent,
                   cycles>>

\* Mutant of CollectLock: Collect copies the slice header under the mutex and
\* releases it before it emits.
CollectLockCopyOut(r) ==
    /\ rpc[r] = "lock"
    /\ mutex = "free"
    /\ rng' = [rng EXCEPT ![r] = c_metrics]
    /\ sent' = [sent EXCEPT ![r] = <<>>]
    /\ rpc' = [rpc EXCEPT ![r] = "range"]
    /\ UNCHANGED <<envVars, timeVars, pc, scrapeVars, mutex, c_metrics, replaced, cycles>>

\* c.mutex.Lock() in Collect, and the evaluation of the range expression.
CollectLock(r) ==
    /\ rpc[r] = "lock"
    /\ mutex = "free"
    /\ mutex' = r
    /\ rng' = [rng EXCEPT ![r] = c_metrics]
    /\ sent' = [sent EXCEPT ![r] = <<>>]
    /\ rpc' = [rpc EXCEPT ![r] = "range"]
    /\ UNCHANGED <<envVars, timeVars, pc, scrapeVars, c_metrics, replaced, cycles>>

\* `ch <- m`: the consumer receives the next sample.
CollectSend(r) ==
    /\ rpc[r] = "range"
    /\ Len(sent[r]) < Len(rng[r])
    /\ sent' = [sent EXCEPT ![r] = Append(@, rng[r][Len(@) + 1])]
    /\ UNCHANGED <<envVars, timeVars, pc, scrapeVars, mutex, c_metrics, replaced, rpc, rng,
                   cycles>>

\* The range loop ends.
CollectRangeEnd(r) ==
    /\ rpc[r] = "range"
    /\ Len(sent[r]) = Len(rng[r])
    /\ rpc' = [rpc EXCEPT ![r] = "unlock"]
    /\ UNCHANGED <<envVars, timeVars, pc, scrapeVars, mutex, c_metrics, replaced, rng, sent,
                   cycles>>

\* The deferred c.mutex.Unlock(): Collect returns.
CollectReturn(r) ==
    /\ rpc[r] = "unlock"
    /\ mutex' = "free"
    /\ rpc' = [rpc EXCEPT ![r] = "idle"]
    /\ rng' = [rng EXCEPT ![r] = <<>>]
    /\ sent' = [sent EXCEPT ![r] = <<>>]
    /\ UNCHANGED <<envVars, timeVars, pc, scrapeVars, c_metrics, replaced, cycles>>

\* ------------------------------------------------------------ specifications

\* The state in which Run calls collector.New.
InitSys ==
    /\ clock = 0
    /\ tickerOn = FALSE
    /\ tickChan = 0
    /\ pc = [p \in Ctx |-> IF p = "main" THEN "new" ELSE "absent"]
    /\ now = [p \in Ctx |-> 0]
    /\ expired = [p \in Ctx |-> FALSE]
    /\ metrics = [p \in Ctx |-> <<>>]
    /\ success = [p \in Ctx |-> TRUE]
    /\ idx = [p \in Ctx |-> 0]
    /\ scrapeDuration = [p \in Ctx |-> 0]
    /\ mutex = "free"
    /\ c_metrics = <<>>
    /\ replaced = FALSE
    /\ rpc = [r \in Readers |-> "idle"]
    /\ rng = [r \in Readers |-> <<>>]
    /\ sent = [r \in Readers |-> <<>>]
    /\ cycles = 0
    /\ cyc = [p \in Ctx |-> 0]
    /\ log = [p \in Ctx |-> <<>>]
    /\ tickedSinceStart = FALSE
    /\ tickedSinceReturn = FALSE

Init == InitEnv(ConcBlocks) /\ InitSys

InitScrape == InitEnv(MaxBlocks) /\ InitSys

\* The steps of scrape and collectTrustStoreMetrics, by either goroutine.
ScrapeStep(p) ==
    \/ BudgetExpire(p)
    \/ LoadDefaultConfig(p)
    \/ DescribeTrustStores(p)
    \/ CollectTrustStoreMetrics(p)
    \/ GetTrustStoreCaCertificatesBundle(p)
    \/ HttpGet(p)
    \/ ReadAllError(p)
    \/ ReadAllAndExtract(p)
    \/ LoopExit(p)
    \/ Finish(p)
    \/ ScrapeLock(p)
    \/ Publish(p)
    \/ ScrapeReturn(p)

\* An account of one trust store, over every bundle of ExtractBlocks items
\* or fewer.
InitExtract ==
    /\ account = <<"a">>
    /\ \E la \in 0..ExtractBlocks :
       \E ba \in [1..la -> Kinds] :
          bundleOf = [x \in ARNs |-> IF x = "a" THEN ba ELSE <<>>]
    /\ InitSys

\* The cycle New runs.
NextExtract ==
    \/ NewScrape
    \/ ScrapeStep("main")

\* The steps of the collector without its readers.
NextScrape ==
    \/ NewScrape
    \/ GoBackgroundScrape
    \/ NewTicker
    \/ Elapse(ScrapeTicks)
    \/ TickReceive
    \/ \E p \in Ctx : ScrapeStep(p)

\* The steps of a Collect call.
CollectStep(r) ==
    \/ CollectCall(r)
    \/ CollectLock(r)
    \/ CollectSend(r)
    \/ CollectRangeEnd(r)
    \/ CollectReturn(r)

Next ==
    \/ NewScrape
    \/ GoBackgroundScrape
    \/ Register
    \/ NewTicker
    \/ Elapse(MaxTicks)
    \/ TickReceive
    \/ \E p \in Ctx : ScrapeStep(p)
    \/ \E r \in Readers : CollectStep(r)

\* The collector and its readers.
Spec == Init /\ [][Next]_vars

\* The collector alone, over every content of the bundles.
SpecScrape == InitScrape /\ [][NextScrape]_vars

\* One cycle over one bundle.
SpecExtract == InitExtract /\ [][NextExtract]_vars

\* What the runtime and the callers guarantee: a goroutine that can take a
\* step of scrape takes it (every external call returns, by ctx or by the
\* HTTP client's timeout), a goroutine waiting at c.mutex.Lock() gets the
\* mutex when it keeps being released, and the registry receives every
\* sample Collect sends.
Fairness ==
    /\ \A p \in Ctx : WF_vars(ScrapeStep(p)) /\ SF_vars(ScrapeLock(p))
    /\ \A r \in Readers :
          WF_vars(CollectLock(r) \/ CollectSend(r) \/ CollectRangeEnd(r) \/ CollectReturn(r))

\* The collector and its readers, under that scheduling.
SpecLive == Init /\ [][Next]_vars /\ Fairness

\* ------------------------------------------------- vocabulary of the claims

\* The scrape execution of p has assigned c.metrics and has not yet returned:
\* c.metrics is the snapshot that execution publishes, log[p] its calls.
Published(p) == pc[p] = "unlock"

\* The samples of a snapshot with one of the given names.
Named(snapshot, names) == SelectSeq(snapshot, LAMBDA m : m.name \in names)

\* The samples of a snapshot labelled with a trust store.
SamplesOf(snapshot, arn) == SelectSeq(snapshot, LAMBDA m : m.arn = arn)

\* The values of the collector_success samples of a snapshot.
SuccessValues(snapshot) ==
    {snapshot[i].value : i \in {j \in 1..Len(snapshot) : snapshot[j].name = "collector_success"}}

HasEvent(l, op, arn, ok) == \E i \in 1..Len(l) : l[i] = Event(op, arn, ok)

\* The trust stores collectTrustStoreMetrics was called for, in call order.
Entered(l) ==
    LET e == SelectSeq(l, LAMBDA x : x.op = "enter") IN [i \in 1..Len(e) |-> e[i].arn]

\* The bundle-location lookup, the bundle fetch or the read failed for arn.
CallFailed(l, arn) ==
    \E op \in {"getBundle", "httpGet", "readAll"} : HasEvent(l, op, arn, FALSE)

\* The bundle of arn was read and every certificate in it characterised.
StoreSucceeded(l, arn) == HasEvent(l, "extract", arn, TRUE)

\* The three samples of the certificate at position i of a bundle.
CertificateTriple(arn, kinds, i, k) ==
    << Sample("certificate_info", arn, i, IF kinds[i] = "RSA" THEN 2048 ELSE 256, 1, k),
       Sample("certificate_not_before", arn, i, 0, i, k),
       Sample("certificate_expiry", arn, i, 0, i + 1, k) >>

\* The certificate samples of a bundle all of whose keys are RSA or ECDSA:
\* one triple per certificate that parses, in bundle order.
RECURSIVE ExpectedCertificates(_, _, _, _)
ExpectedCertificates(arn, kinds, i, k) ==
    IF i > Len(kinds) THEN <<>>
    ELSE (IF kinds[i] \in {"RSA", "ECDSA"} THEN CertificateTriple(arn, kinds, i, k) ELSE <<>>)
         \o ExpectedCertificates(arn, kinds, i + 1, k)

\* All the samples of a trust store that succeeded.
ExpectedStore(arn, k) ==
    << Sample("info", arn, 0, 0, 1, k),
       Sample("certificates", arn, 0, 0,
              Cardinality({i \in 1..Len(bundleOf[arn]) :
                              bundleOf[arn][i] \in {"RSA", "ECDSA", "ED25519", "MALFORMED"}}), k),
       Sample("revoked_entries", arn, 0, 0, 0, k) >>
    \o ExpectedCertificates(arn, bundleOf[arn], 1, k)

\* A snapshot is the work of one scrape execution and ends with the four
\* exporter samples.
WholeSnapshot(snapshot) ==
    /\ Len(snapshot) >= 4
    /\ \A i \in 1..Len(snapshot) : snapshot[i].cycle = snapshot[1].cycle
    /\ [i \in 1..4 |-> snapshot[Len(snapshot) - 4 + i].name]
         = << "exporter_last_scrape_timestamp", "exporter_scrape_duration_seconds",
              "exporter_scrape_interval", "collector_success" >>
    /\ \A i \in 1..(Len(snapshot) - 4) : snapshot[i].name \notin ExporterNames

\* A scrape execution that has not yet published.
Unpublished(k) == \E p \in Ctx : cyc[p] = k /\ pc[p] # "unlock"

\* ------------------------------------------------------------------- claims

\* C1: the samples one Collect call emits are exactly the complete snapshot
\* installed by one finished scrape execution: no samples of two executions,
\* no snapshot lacking a part (such as the four exporter samples).
C1_CollectEmitsOneWholeSnapshot ==
    \A r \in Readers :
        rpc[r] = "unlock" =>
            /\ sent[r] = c_metrics
            /\ WholeSnapshot(sent[r])
            /\ ~Unpublished(sent[r][1].cycle)

\* C1 witness: a Collect call has emitted a background cycle's snapshot with
\* trust store samples while the next cycle waits for the lock.
C1_Witness ==
    \E r \in Readers :
        /\ rpc[r] = "unlock"
        /\ Len(sent[r]) > 4
        /\ sent[r][1].cycle >= 2
        /\ pc["bg"] = "lock"

\* C2: once a cycle has published, c.metrics holds exactly one sample of each
\* of the four exporter metrics, whatever failed.
C2_FourExporterSamples ==
    c_metrics # <<>> =>
        \A n \in ExporterNames : Len(Named(c_metrics, {n})) = 1

\* C2 witness: a background cycle that failed has published.
C2_Witness ==
    /\ Published("bg")
    /\ ~success["bg"]
    /\ \A n \in ExporterNames : Len(Named(c_metrics, {n})) = 1

\* C3: a cycle whose config resolution or enumeration failed publishes no
\* trust store and no certificate sample and collector_success 0, and fetches
\* no trust store.
C3_CycleLevelFailure ==
    \A p \in Ctx :
        (/\ Published(p)
         /\ \/ HasEvent(log[p], "config", "", FALSE)
            \/ HasEvent(log[p], "describe", "", FALSE))
        => /\ Named(c_metrics, TrustStoreNames \cup CertificateNames) = <<>>
           /\ SuccessValues(c_metrics) = {0}
           /\ \A i \in 1..Len(log[p]) : log[p][i].op \in {"config", "describe"}

\* C3 witness: a cycle published after DescribeTrustStores failed, in an
\* account that has trust stores.
C3_Witness ==
    /\ Published("bg")
    /\ HasEvent(log["bg"], "describe", "", FALSE)
    /\ Len(account) = 2
    /\ SuccessValues(c_metrics) = {0}

\* C4 (the claim as stated): when trust store A fails at the lookup, the
\* fetch or the read and trust store B succeeds, the snapshot holds B's
\* samples, no sample labelled A, and collector_success 0.
C4_FailedStoreAbsent ==
    \A p \in Ctx : \A A \in ARNs : \A B \in ARNs :
        (/\ Published(p)
         /\ CallFailed(log[p], A)
         /\ StoreSucceeded(log[p], B))
        => /\ SamplesOf(c_metrics, B) = ExpectedStore(B, cyc[p])
           /\ SamplesOf(c_metrics, A) = <<>>
           /\ SuccessValues(c_metrics) = {0}

\* C5: after a successful enumeration every trust store is processed exactly
\* once, in enumeration order, whatever failed before it, and the samples of
\* every trust store that succeeded are in the snapshot.
C5_EveryStoreProcessed ==
    \A p \in Ctx :
        (Published(p) /\ HasEvent(log[p], "describe", "", TRUE))
        => /\ Entered(log[p]) = account
           /\ \A B \in ARNs :
                 StoreSucceeded(log[p], B) =>
                     SamplesOf(c_metrics, B) = ExpectedStore(B, cyc[p])

\* C5 witness: the first trust store failed and the second one, which holds
\* a certificate, succeeded.
C5_Witness ==
    /\ Published("bg")
    /\ account = <<"a", "b">>
    /\ CallFailed(log["bg"], "a")
    /\ StoreSucceeded(log["bg"], "b")
    /\ Len(SamplesOf(c_metrics, "b")) = 6

\* C6 (the claim as stated): a bundle that holds a certificate whose key is
\* neither RSA nor ECDSA, at any position, makes the extraction fail, leaves
\* no certificate sample of its trust store in the snapshot, and leaves the
\* samples of the other trust stores as they are for a good bundle.
C6_UnknownKeyLeavesNoCertificate ==
    \A p \in Ctx : \A A \in ARNs :
        (/\ Published(p)
         /\ HasEvent(log[p], "readAll", A, TRUE)
         /\ \E i \in 1..Len(bundleOf[A]) : bundleOf[A][i] = "ED25519")
        => /\ HasEvent(log[p], "extract", A, FALSE)
           /\ SuccessValues(c_metrics) = {0}
           /\ Named(SamplesOf(c_metrics, A), CertificateNames) = <<>>
           /\ \A B \in ARNs \ {A} :
                 StoreSucceeded(log[p], B) =>
                     SamplesOf(c_metrics, B) = ExpectedStore(B, cyc[p])

\* Every step of the cycle succeeded: config resolution, enumeration, and for
\* every enumerated trust store the lookup, the fetch, the read and the
\* extraction.
EveryStepSucceeded(l) ==
    /\ HasEvent(l, "config", "", TRUE)
    /\ HasEvent(l, "describe", "", TRUE)
    /\ \A i \in 1..Len(account) :
          \A op \in {"getBundle", "httpGet", "readAll", "extract"} :
              HasEvent(l, op, account[i], TRUE)

\* C7: collector_success is 1 exactly when every step of the cycle
\* succeeded; one failure anywhere makes it 0 and no later success resets it.
C7_SuccessIffEveryStep ==
    \A p \in Ctx :
        Published(p) =>
            SuccessValues(c_metrics) = {IF EveryStepSucceeded(log[p]) THEN 1 ELSE 0}

\* C7 witness: the first trust store failed, the second succeeded, and the
\* snapshot reports 0.
C7_Witness ==
    /\ Published("bg")
    /\ account = <<"a", "b">>
    /\ HasEvent(log["bg"], "httpGet", "a", FALSE)
    /\ StoreSucceeded(log["bg"], "b")
    /\ SuccessValues(c_metrics) = {0}

\* The certificate at position i of the bundle of A is reached by the
\* extraction: no certificate with an unknown key precedes it.
Reached(A, i) == \A j \in 1..(i - 1) : bundleOf[A][j] # "ED25519"

\* C8: a CERTIFICATE block that fails to parse is skipped and ends nothing:
\* the certificates after it still have their samples, the trust store is
\* not reported as failed, and a cycle with no other problem publishes
\* collector_success 1.
C8_ParseFailureSkipped ==
    \A p \in Ctx : \A A \in ARNs :
        (Published(p) /\ HasEvent(log[p], "readAll", A, TRUE))
        => LET kinds == bundleOf[A]
               certs == Named(SamplesOf(c_metrics, A), CertificateNames)
           IN  /\ \A i \in 1..Len(kinds) :
                     (kinds[i] \in {"RSA", "ECDSA"} /\ Reached(A, i))
                     => \A j \in 1..3 :
                            \E n \in 1..Len(certs) :
                                certs[n] = CertificateTriple(A, kinds, i, cyc[p])[j]
               /\ \A n \in 1..Len(certs) : kinds[certs[n].serial] \in {"RSA", "ECDSA"}
               /\ HasEvent(log[p], "extract", A, FALSE)
                     <=> \E i \in 1..Len(kinds) : kinds[i] = "ED25519"
               /\ (\A i \in 1..Len(log[p]) : log[p][i].ok)
                     => SuccessValues(c_metrics) = {1}

\* C8 witness: a bundle whose first block does not parse and whose second
\* holds an RSA certificate; the cycle publishes that certificate and
\* collector_success 1.
C8_Witness ==
    /\ Published("bg")
    /\ bundleOf["a"] = <<"MALFORMED", "RSA">>
    /\ HasEvent(log["bg"], "readAll", "a", TRUE)
    /\ Len(Named(SamplesOf(c_metrics, "a"), CertificateNames)) = 3
    /\ SuccessValues(c_metrics) = {1}

\* C9: at most one execution of scrape is in progress: the one New runs
\* returns before the background goroutine exists, and the loop runs one at
\* a time however long a cycle lasts.
C9_OneScrapeAtATime ==
    /\ Cardinality({p \in Ctx : InScrape(p)}) <= 1
    /\ InScrape("main") => pc["bg"] = "absent"
    /\ pc["bg"] # "absent" => pc["main"] \in {"returned", "serving"}

\* C9 witness: a background cycle has lasted a whole interval, its tick is
\* buffered, and the cycle is still running, held up by a Collect call.
C9_Witness ==
    /\ pc["bg"] = "lock"
    /\ clock > now["bg"]
    /\ tickChan = 1
    /\ mutex \in Readers

\* The background loop starts a cycle.
LoopStartsCycle == pc["bg"] = "wait" /\ pc'["bg"] = "config"

\* C10 (the claim as stated): the loop starts a cycle only on a tick that
\* fired after the previous cycle returned; ticks fired during the cycle are
\* not remembered.
C10_NoTickRemembered == [][LoopStartsCycle => tickedSinceReturn]_vars

\* C10 (amended): the loop starts a cycle only on a tick that fired after the
\* previous cycle started: of the ticks that fire during a cycle one is
\* remembered and starts the next cycle at once, the others are dropped.
C10_OneTickRemembered == [][LoopStartsCycle => tickedSinceStart]_vars

\* C10 witness: a cycle is running that started on a tick fired while the
\* previous cycle ran, with no tick since that cycle returned.
C10_Witness ==
    /\ InScrape("bg")
    /\ cyc["bg"] >= 3
    /\ ~tickedSinceReturn

\* C11 (the claim as stated): a Collect call never has to wait for a scrape
\* that is publishing: in no state is a reader blocked at c.mutex.Lock()
\* while a goroutine running scrape holds the mutex.
C11_ReaderNeverWaitsForScrape ==
    \A r \in Readers : rpc[r] = "lock" => mutex \notin Ctx

\* C11 (amended): a Collect call waits for a scrape only while that scrape is
\* between its c.mutex.Lock() and its return, where it appends the exporter
\* samples and assigns c.metrics; it never waits for a goroutine that is not
\* in that section.
C11_ReaderWaitsOnlyForAssignment ==
    \A r \in Readers :
        (rpc[r] = "lock" /\ mutex \in Ctx) => pc[mutex] \in {"publish", "unlock"}

\* C11 witness: a Collect call waits at c.mutex.Lock() while the background
\* cycle holds the mutex and has not yet assigned c.metrics.
C11_Witness ==
    \E r \in Readers :
        /\ rpc[r] = "lock"
        /\ mutex = "bg"
        /\ pc["bg"] = "publish"

\* The values of the exporter_last_scrape_timestamp samples of a snapshot.
LastScrapeTimestamps(snapshot) ==
    {snapshot[i].value :
        i \in {j \in 1..Len(snapshot) : snapshot[j].name = "exporter_last_scrape_timestamp"}}

\* The scrape execution of p assigns c.metrics.
Assigns(p) == pc[p] = "publish" /\ pc'[p] = "unlock"

\* C12 (the claim as stated): the published exporter_last_scrape_timestamp is
\* the start time of the last successful scrape: a cycle that succeeded
\* publishes its own start time, and a cycle that ends with collector_success
\* 0 leaves the published timestamp as it was.
C12_TimestampOfLastSuccessfulScrape ==
    [][\A p \in Ctx :
          (Assigns(p) /\ c_metrics # <<>>)
          => LastScrapeTimestamps(c_metrics')
               = IF success[p] THEN {now[p]} ELSE LastScrapeTimestamps(c_metrics)]_vars

\* The scrape execution number k has assigned its snapshot to c.metrics and
\* has returned to its caller, which goes on: New to its return, the loop to
\* its next receive from ticker.C.
ReturnedAfterPublishing(p, k) ==
    /\ cyc[p] = 0
    /\ pc[p] = (IF p = "main" THEN "go" ELSE "wait")
    /\ mutex # p
    /\ WholeSnapshot(c_metrics)
    /\ c_metrics[1].cycle = k

C14_FirstCyclePublishedBeforeNewReturns ==
    /\ InScrape("main") => (cyc["main"] = 1 /\ ~tickerOn /\ pc["bg"] = "absent")
    /\ (pc["main"] \in {"go", "returned", "serving"} \/ pc["bg"] # "absent" \/ tickerOn)
          => (WholeSnapshot(c_metrics) /\ ~Unpublished(c_metrics[1].cycle))
    /\ \A r \in Readers :
          /\ rpc[r] # "idle" => pc["main"] = "serving"
          /\ rpc[r] \in {"range", "unlock"}
                => (WholeSnapshot(rng[r]) /\ ~Unpublished(rng[r][1].cycle))

\* C14 witness: a Collect call emits the snapshot of New's own cycle while
\* the background goroutine has not yet created its ticker.
C14_Witness ==
    \E r \in Readers :
        /\ rpc[r] = "range"
        /\ rng[r][1].cycle = 1
        /\ pc["bg"] = "newTicker"
        /\ cycles = 1

\* The step appends one call of the given kinds to the log of p.
Calls(p, ops) ==
    /\ Len(log'[p]) = Len(log[p]) + 1
    /\ log'[p][Len(log'[p])].op \in ops

\* C15 (the claim as stated): once the deadline of the cycle's ctx has
\* passed, every external call the cycle still makes (the enumeration, a
\* bundle-location lookup, a bundle fetch) fails, and the cycle is left with
\* success = false.
C15_NoCallSucceedsAfterDeadline ==
    [][\A p \in Ctx :
          (expired[p] /\ Calls(p, {"describe", "getBundle", "httpGet"}))
          => (~log'[p][Len(log'[p])].ok /\ ~success'[p])]_vars

\* C16: for a bundle that was read and whose certificates all have RSA or
\* ECDSA keys, the certificate samples of the trust store are exactly one
\* triple per CERTIFICATE block that parses, in bundle order, labelled with
\* the trust store; blocks of other types and bytes that are no PEM block
\* contribute nothing and are no error, wherever they stand.
C16_OneTriplePerParsedCertificate ==
    \A p \in Ctx : \A A \in ARNs :
        (/\ Published(p)
         /\ HasEvent(log[p], "readAll", A, TRUE)
         /\ \A i \in 1..Len(bundleOf[A]) : bundleOf[A][i] # "ED25519")
        => /\ Named(SamplesOf(c_metrics, A), CertificateNames)
                = ExpectedCertificates(A, bundleOf[A], 1, cyc[p])
           /\ Named(c_metrics, CertificateNames) = Named(SamplesOf(c_metrics, A), CertificateNames)
           /\ HasEvent(log[p], "extract", A, TRUE)
           /\ ~HasEvent(log[p], "extract", A, FALSE)

\* C16 witness: a bundle of two certificate blocks with a private-key block
\* between them and stray bytes after the last block yields the two triples.
C16_Witness ==
    /\ Published("main")
    /\ bundleOf["a"] = <<"RSA", "KEY", "ECDSA", "GARBAGE">>
    /\ HasEvent(log["main"], "extract", "a", TRUE)
    /\ Len(Named(c_metrics, CertificateNames)) = 6
    /\ Named(c_metrics, {"certificate_info"})[2].serial = 3

\* C17: while a cycle makes its external calls (config resolution,
\* enumeration, lookups, fetches, reads) it does not hold c.mutex: a Collect
\* call made in that phase is not kept waiting by the cycle, and emits the
\* snapshot published before the cycle, whole.
C17_NoLockDuringExternalCalls ==
    \A p \in Ctx :
        InBudgetScope(p) =>
            /\ mutex # p
            /\ \A r \in Readers :
                  /\ rpc[r] = "lock" => (mutex = "free" \/ mutex \in Readers \ {r})
                  /\ rpc[r] \in {"range", "unlock"}
                        => /\ mutex = r
                           /\ rng[r] = c_metrics
                           /\ WholeSnapshot(rng[r])
                           /\ rng[r][1].cycle < cyc[p]

\* C17 witness: while the background cycle waits for a bundle fetch, a
\* Collect call has emitted the whole snapshot of the cycle before it.
C17_Witness ==
    \E r \in Readers :
        /\ pc["bg"] = "httpGet"
        /\ rpc[r] = "unlock"
        /\ sent[r] = c_metrics
        /\ c_metrics[1].cycle = cyc["bg"] - 1

\* C18: every cycle replaces c.metrics entirely: what a cycle publishes is
\* the slice it built itself followed by its four exporter samples, so no
\* sample of an earlier cycle is served after it, whether the cycle failed
\* at config resolution or enumeration (no trust store or certificate sample
\* at all) or at one trust store.
C18_SnapshotReplacedEntirely ==
    \A p \in Ctx :
        Published(p) =>
            /\ \A i \in 1..Len(c_metrics) : c_metrics[i].cycle = cyc[p]
            /\ Len(c_metrics) = Len(metrics[p]) + 4
            /\ \A i \in 1..Len(metrics[p]) : c_metrics[i] = metrics[p][i]
            /\ (\E i \in 1..Len(log[p]) :
                    log[p][i].op \in {"config", "describe"} /\ ~log[p][i].ok)
                  => \A i \in 1..Len(c_metrics) : c_metrics[i].name \in ExporterNames

\* C18 witness: the snapshot of the cycle before held trust store samples,
\* the background cycle failed at the enumeration, and c.metrics now holds
\* that cycle's four exporter samples only.
C18_Witness ==
    /\ Published("bg")
    /\ replaced
    /\ HasEvent(log["bg"], "describe", "", FALSE)
    /\ Len(c_metrics) = 4

\* C19: a fetched body that holds no certificate block (an empty body, bytes
\* that are no PEM block, blocks of other types, as the body of an error
\* response would be) is no failure: the trust store has its three samples
\* and no certificate sample, the extraction returns no error, and a cycle in
\* which no call failed publishes collector_success 1.
C19_BodyWithoutCertificateIsNoFailure ==
    \A p \in Ctx : \A A \in ARNs :
        (/\ Published(p)
         /\ HasEvent(log[p], "readAll", A, TRUE)
         /\ \A i \in 1..Len(bundleOf[A]) : bundleOf[A][i] \in {"GARBAGE", "KEY"})
        => /\ Named(SamplesOf(c_metrics, A), CertificateNames) = <<>>
           /\ Len(Named(SamplesOf(c_metrics, A), TrustStoreNames)) = 3
           /\ StoreSucceeded(log[p], A)
           /\ \A i \in 1..Len(log[p]) : log[p][i].op = "extract" => log[p][i].ok
           /\ (\A i \in 1..Len(log[p]) : log[p][i].ok) <=> SuccessValues(c_metrics) = {1}

\* C19 witness: the fetch returned bytes that are no PEM block, and the
\* cycle published the trust store's three samples and collector_success 1.
C19_Witness ==
    /\ Published("main")
    /\ bundleOf["a"] = <<"GARBAGE", "GARBAGE">>
    /\ HasEvent(log["main"], "readAll", "a", TRUE)
    /\ Len(c_metrics) = 7
    /\ SuccessValues(c_metrics) = {1}

\* C20: Collect holds c.mutex for the whole emission.  While a Collect call
\* has not returned, no cycle is past its c.mutex.Lock(), c.metrics is still
\* the slice the call emits, and at most one cycle has started since that
\* slice was published: that cycle waits for the mutex, and the loop starts
\* no further one.
C20_CollectHoldsLockThroughEmission ==
    \A r \in Readers :
        rpc[r] \in {"range", "unlock"} =>
            /\ mutex = r
            /\ rng[r] = c_metrics
            /\ \A p \in Ctx : pc[p] \notin {"publish", "unlock"}
            /\ cycles <= rng[r][1].cycle + 1

\* C20 witness: the consumer of a Collect call has stopped part-way, the
\* background cycle has finished its calls and waits for the mutex, and a
\* tick is buffered that starts no cycle.
C20_Witness ==
    \E r \in Readers :
        /\ rpc[r] = "range"
        /\ Len(sent[r]) > 0
        /\ Len(sent[r]) < Len(rng[r])
        /\ pc["bg"] = "lock"
        /\ tickChan = 1
        /\ clock = MaxTicks

====
